---- MODULE Spec2Model ----
(***************************************************************************)
(* AirAlert: CO2 monitor firmware (MicroPython).                           *)
(*                                                                         *)
(* DiagnosticsEngine  src/diagnostics.py   specification SpecDiag          *)
(* BusManager         src/sensor_i2c.py    specification SpecBus           *)
(* ProtocolCodec      src/sensor_i2c.py    specification SpecCodec         *)
(* ControlLoop        src/main.py          specification SpecLoop          *)
(*                                                                         *)
(* Times are millisecond tick values, as in the source.  Python's None is  *)
(* the empty sequence and a present value v is <<v>>.                      *)
(***************************************************************************)
EXTENDS Integers, Sequences, FiniteSets, TLC

VARIABLES
    now,                    \* time.ticks_ms() as seen by the next call / tick
    op,                     \* the operation that produced the current state
    ret,                    \* what that operation returned
    nops,                   \* number of operations performed so far
    \* ---- diagnostics state dict (diagnostics.py, diag_init) ----
    max_events,
    score_events,           \* list of <<ts, kind, weight>>
    event_log,              \* list of <<ts, code>>
    err_counts,             \* code -> count
    scd_restart_attempts,   \* list of ts
    runtime_degraded,
    diag_i2c_err_total,
    diag_recover_total,
    diag_last_i2c_err_ms,
    diag_last_recover_ms,
    window_score,
    window_err_rate_per_min,
    power_bad,
    \* ---- arguments the caller keeps fixed over one run ----
    cfg,                    \* diag_compute cfg: [window_ms, bad_score]
    guard,                  \* diag_allow_scd_restart: [window_ms, max_attempts]
    \* ---- history of the run (not program state) ----
    allowed_log,            \* timestamps of every restart the guard allowed
    \* ---- bus manager (sensor_i2c.py) ----
    SHARED_I2C_BUS,         \* topology, fixed by the pin assignment
    scd_i2c,                \* scd.i2c: the bus handle bound into the sensor driver
    oled_i2c,               \* the bus handle get_oled_probe gave the display
    handles_made,           \* I2C objects constructed so far (handles are numbered)
    last_i2c_recover,       \* the caller's last-recovery timestamp
    \* ---- history of the run (not program state) ----
    rebind_log,             \* times of the performed bus-handle rebinds
    \* ---- control loop: the locals of main() (main.py) ----
    warn_on, high_on, remind_ms,
    last_ready_poll,
    last_sample_ms,
    co2, temp, rh,          \* raw sample (temp and rh in tenths)
    co2_f, temp_f, rh_f,    \* filtered sample, as multiples of 1/Scale
    last_co2_for_trend, last_temp_for_trend, last_rh_for_trend,
    trend_dir, temp_trend_dir, rh_trend_dir,
    prev_lvl,
    last_remind,
    warm_start, last_restart, fast_recovery_done,
    \* ---- history of the run (not program state) ----
    nsamples,               \* samples accepted so far
    tick,                   \* what the latest loop iteration did
    \* ---- protocol codec (sensor_i2c.py): one command and one reply ----
    cmd, args_words,        \* the arguments of build_cmd
    out,                    \* the bytes build_cmd returned
    buf,                    \* the bytes handed to parse_words_with_crc
    words,                  \* its outcome: the words, or the error it raised
    \* ---- history of the run (not program state) ----
    buf_from,               \* where buf was taken from
    \* ---- settings store (state_store.py, telegram_commands.py) ----
    loaded,                 \* the state dict as load_state returned it, until
                            \* apply_state_defaults rewrites it in place
    state,                  \* the state dict from apply_state_defaults on
    saved,                  \* the state file's contents
    \* ---- history of the run (not program state) ----
    nsaves                  \* calls of save_state so far

diagVars == <<max_events, score_events, event_log, err_counts,
              scd_restart_attempts, runtime_degraded, diag_i2c_err_total,
              diag_recover_total, diag_last_i2c_err_ms, diag_last_recover_ms,
              window_score, window_err_rate_per_min, power_bad, cfg, guard,
              allowed_log>>

busVars == <<SHARED_I2C_BUS, scd_i2c, oled_i2c, handles_made, last_i2c_recover,
            rebind_log>>

sampleVars == <<last_sample_ms, co2, temp, rh, co2_f, temp_f, rh_f,
                last_co2_for_trend, last_temp_for_trend, last_rh_for_trend,
                trend_dir, temp_trend_dir, rh_trend_dir, nsamples>>

loopVars == <<warn_on, high_on, remind_ms, last_ready_poll, sampleVars, prev_lvl,
              last_remind, warm_start, last_restart, fast_recovery_done, tick>>

codecVars == <<cmd, args_words, out, buf, words, buf_from>>

settingsVars == <<loaded, state, saved, nsaves>>

vars == <<now, op, ret, nops, diagVars, busVars, loopVars, codecVars, settingsVars>>

----------------------------------------------------------------------------
\* Bounds of the model

MaxTime == 3        \* diagnostics calls are made at times 0..MaxTime
MaxOps == 4         \* diagnostics calls per run
MaxBusOps == 4      \* recovery requests per run
MaxCooldowns == 3   \* recovery requests are made at times up to this many cooldowns
MaxTicks == 3       \* iterations of the control loop per run
MaxSamples == 2     \* filtered values are exact for MaxSamples + 1 accepted samples
MaxWords == 2       \* argument words of one command
MaxCallbacks == 2   \* threshold-update callbacks per run

----------------------------------------------------------------------------
\* Python values

None == <<>>
Some(v) == <<v>>

\* s[-n:] when len(s) > n, else s; s[-0:] is the whole of s
Last(s, n) == IF Len(s) > n /\ n > 0 THEN SubSeq(s, Len(s) - n + 1, Len(s)) ELSE s

----------------------------------------------------------------------------
\* diagnostics.py

WARN_SCD_RESTART_LIMIT == "WARN_SCD_RESTART_LIMIT"
ERR_SENSOR_READ == "ERR_SENSOR_READ"
Codes == {ERR_SENSOR_READ, WARN_SCD_RESTART_LIMIT}

_ticks_diff(now_ms, then_ms) == now_ms - then_ms

\* while times and _ticks_diff(now_ms, times[0]) > window_ms: times.pop(0)
RECURSIVE _prune_times(_, _, _)
_prune_times(times, now_ms, window_ms) ==
    IF times # <<>> /\ _ticks_diff(now_ms, times[1]) > window_ms
    THEN _prune_times(Tail(times), now_ms, window_ms)
    ELSE times

\* (mutation: "if" in place of "while", at most one event is dropped)
_prune_events_Once(events, now_ms, window_ms) ==
    IF events # <<>> /\ _ticks_diff(now_ms, events[1][1]) > window_ms
    THEN Tail(events)
    ELSE events

\* while events and _ticks_diff(now_ms, events[0][0]) > window_ms: events.pop(0)
RECURSIVE _prune_events(_, _, _)
_prune_events(events, now_ms, window_ms) ==
    IF events # <<>> /\ _ticks_diff(now_ms, events[1][1]) > window_ms
    THEN _prune_events(Tail(events), now_ms, window_ms)
    ELSE events

\* score_events after diag_add_event(state, now_ms, kind, weight)
diag_add_event(events, maxev, now_ms, kind, weight) ==
    Last(Append(events, <<now_ms, kind, weight>>), maxev)

\* (mutation: every retained event is counted as a bus fault)
RECURSIVE ScoreLoop_CountsEveryKind(_, _, _)
ScoreLoop_CountsEveryKind(events, score, cnt) ==
    IF events = <<>> THEN <<score, cnt>>
    ELSE ScoreLoop_CountsEveryKind(Tail(events), score + events[1][3], cnt + 1)

\* the loop of diag_compute: <<score, i2c_err_cnt>> over the events
RECURSIVE ScoreLoop(_, _, _)
ScoreLoop(events, score, cnt) ==
    IF events = <<>> THEN <<score, cnt>>
    ELSE ScoreLoop(Tail(events),
                   score + events[1][3],
                   IF events[1][2] = "i2c_err" THEN cnt + 1 ELSE cnt)

\* (mutation: the lifetime counter grows by the weight of the event)
CountAfter_AddsWeight(total, weight) == total + weight

\* state[..._total] += 1 in diag_mark_i2c_err and diag_mark_recover
CountAfter(total, weight) == total + 1

\* (mutation: the stored score is kept up to date as events are added)
ScoreAfterAddEvent_Eager(score, weight) == score + weight

\* state["window_score"] after diag_add_event: the snapshot is not touched
ScoreAfterAddEvent(score, weight) == score

\* per_min as the exact fraction num/den (0.0 when window_ms = 0)
PerMin(cnt, window_ms) ==
    IF window_ms > 0 THEN [num |-> cnt * 60000, den |-> window_ms]
    ELSE [num |-> 0, den |-> 1]

\* (mutation: strict comparison)
PowerBad_Strict(score, bad_score) == score > bad_score

PowerBad(score, bad_score) == score >= bad_score

\* (mutation: off by one, one attempt too many is let through)
RestartDenied_OffByOne(attempts, max_attempts) == Len(attempts) > max_attempts

\* whether diag_allow_scd_restart denies, given the pruned attempts
RestartDenied(attempts, max_attempts) == Len(attempts) >= max_attempts

----------------------------------------------------------------------------
\* sensor_i2c.py: recover_shared_i2c

I2C_RECOVERY_COOLDOWN_MS == 2500

\* (mutation: the cooldown test is dropped)
InCooldown_Never(now_ms, last) == FALSE

\* time.ticks_diff(now, last_i2c_recover) < I2C_RECOVERY_COOLDOWN_MS
InCooldown(now_ms, last) == _ticks_diff(now_ms, last) < I2C_RECOVERY_COOLDOWN_MS

\* (mutation: a request that is not performed still stamps the time)
recover_result_Stamps(shared, now_ms, last, i2c, fresh) ==
    IF (~shared) \/ InCooldown(now_ms, last)
    THEN [i2c |-> i2c, last |-> now_ms, recovered |-> FALSE]
    ELSE [i2c |-> fresh, last |-> now_ms, recovered |-> TRUE]

\* the triple recover_shared_i2c returns; fresh is the handle I2C(...) would make
recover_result(shared, now_ms, last, i2c, fresh) ==
    IF ~shared THEN [i2c |-> i2c, last |-> last, recovered |-> FALSE]
    ELSE IF InCooldown(now_ms, last)
         THEN [i2c |-> i2c, last |-> last, recovered |-> FALSE]
         ELSE [i2c |-> fresh, last |-> now_ms, recovered |-> TRUE]

\* the display's handle from get_oled_probe(i2c_scd): the sensor's own handle
\* on a shared bus, a new I2C(1, ...) object (numbered fresh) otherwise
oled_probe(shared, i2c_scd, fresh) == IF shared THEN i2c_scd ELSE fresh

\* bus state while another component is exercised
BusIdle ==
    /\ SHARED_I2C_BUS = TRUE
    /\ scd_i2c = 0
    /\ oled_i2c = 0
    /\ handles_made = 1
    /\ last_i2c_recover = 0
    /\ rebind_log = <<>>

----------------------------------------------------------------------------
\* main.py: constants and pure functions of the control loop
\*
\* Filtered values are floats in the source.  Here a filtered value v is the
\* integer v * Scale, which is exact while at most MaxSamples + 1 samples have
\* been accepted (each EMA step divides by 20 once).  Temperatures and
\* humidities are in tenths.

Scale == 20 ^ MaxSamples

READY_POLL_MS == 500
SCD_RESTART_MS == 90000
SCD_FAST_RECOVERY_MS == 25000
\* EMA_CO2_ALPHA = 0.35, EMA_T_ALPHA = EMA_RH_ALPHA = 0.20, in twentieths
EMA_CO2_ALPHA == 7
EMA_T_ALPHA == 4
EMA_RH_ALPHA == 4
\* TEMP_CORR_C = 1.9, UI_TEMP_TREND_DEADBAND = 0.2, UI_RH_TREND_DEADBAND = 1.0, in tenths
TEMP_CORR_C == 19
UI_TREND_DEADBAND == 20
UI_TEMP_TREND_DEADBAND == 2
UI_RH_TREND_DEADBAND == 10
TG_ENABLE == TRUE
QUIET_ENABLE == TRUE
QUIET_START_H == 0
QUIET_END_H == 10
LVL_GOOD == 0
LVL_OK == 1
LVL_HIGH == 2
\* if co2 < 350 or co2 > 10000: the sample is dropped
CO2_MIN_PLAUSIBLE == 350
CO2_MAX_PLAUSIBLE == 10000

\* (mutation: no filtering, the new value replaces the old one)
ema_Unfiltered(prev, x, a) == Some(x * Scale)

\* ema(prev, x, alpha) for an integer (or tenths) x and alpha = a/20
ema(prev, x, a) ==
    IF prev = None THEN Some(x * Scale)
    ELSE Some(prev[1] + a * ((x * Scale - prev[1]) \div 20))

\* (mutation: a change equal to the deadband already counts as a trend)
trend_from_delta_Inclusive(delta, deadband) ==
    IF delta >= deadband * Scale THEN 1
    ELSE IF delta <= 0 - deadband * Scale THEN 0 - 1
    ELSE 0

\* trend_from_delta(delta, deadband), delta scaled like the filtered values
trend_from_delta(delta, deadband) ==
    IF delta > deadband * Scale THEN 1
    ELSE IF delta < 0 - deadband * Scale THEN 0 - 1
    ELSE 0

\* the trend assigned on an accepted sample: 0 when there is no earlier value
TrendOf(new_f, last_for_trend, deadband) ==
    IF last_for_trend # None
    THEN trend_from_delta(new_f[1] - last_for_trend[1], deadband)
    ELSE 0

\* level_from_co2(co2, warn_on, high_on), co2 scaled like the filtered values
level_from_co2(c, warn, high) ==
    IF c < warn * Scale THEN LVL_GOOD
    ELSE IF c <= high * Scale THEN LVL_OK
    ELSE LVL_HIGH

\* is_quiet_now() when time.localtime()[3] is hour
is_quiet_now(hour) ==
    IF ~QUIET_ENABLE THEN FALSE
    ELSE IF QUIET_START_H < QUIET_END_H
         THEN QUIET_START_H <= hour /\ hour < QUIET_END_H
         ELSE hour >= QUIET_START_H \/ hour < QUIET_END_H

\* SCD41.read_measurement: temp = -45.0 + 175.0 * (t_raw / 65535.0) and
\* rh = 100.0 * (rh_raw / 65535.0), in tenths
read_measurement(w) ==
    [co2 |-> w[1],
     temp |-> (1750 * w[2]) \div 65535 - 450,
     rh |-> (1000 * w[3]) \div 65535]

Plausible(c) == ~(c < CO2_MIN_PLAUSIBLE \/ c > CO2_MAX_PLAUSIBLE)

\* (mutation: the first HIGH alert is sent again while the level stays HIGH)
AlertKind_Repeats(prev, lvl, t, last_rem, rem_ms, quiet, wlan) ==
    IF ~(wlan /\ TG_ENABLE) THEN "none"
    ELSE IF lvl = LVL_HIGH THEN (IF quiet THEN "none" ELSE "high")
    ELSE IF prev = LVL_HIGH /\ lvl = LVL_GOOD THEN "recovery"
    ELSE "none"

\* (mutation: the reminder does not ask for quiet hours)
AlertKind_LoudReminder(prev, lvl, t, last_rem, rem_ms, quiet, wlan) ==
    IF ~(wlan /\ TG_ENABLE) THEN "none"
    ELSE IF prev # LVL_HIGH /\ lvl = LVL_HIGH THEN (IF quiet THEN "none" ELSE "high")
    ELSE IF lvl = LVL_HIGH /\ _ticks_diff(t, last_rem) > rem_ms THEN "reminder"
    ELSE IF prev = LVL_HIGH /\ lvl = LVL_GOOD THEN "recovery"
    ELSE "none"

\* (mutation: the recovery notice is muted in quiet hours like the others)
AlertKind_QuietRecovery(prev, lvl, t, last_rem, rem_ms, quiet, wlan) ==
    IF ~(wlan /\ TG_ENABLE) THEN "none"
    ELSE IF prev # LVL_HIGH /\ lvl = LVL_HIGH THEN (IF quiet THEN "none" ELSE "high")
    ELSE IF lvl = LVL_HIGH /\ _ticks_diff(t, last_rem) > rem_ms
         THEN (IF ~quiet THEN "reminder" ELSE "none")
    ELSE IF prev = LVL_HIGH /\ lvl = LVL_GOOD
         THEN (IF quiet THEN "none" ELSE "recovery")
    ELSE "none"

\* (mutation: any descent to GOOD is announced as a recovery)
AlertKind_AnyDescent(prev, lvl, t, last_rem, rem_ms, quiet, wlan) ==
    IF ~(wlan /\ TG_ENABLE) THEN "none"
    ELSE IF prev # LVL_HIGH /\ lvl = LVL_HIGH THEN (IF quiet THEN "none" ELSE "high")
    ELSE IF lvl = LVL_HIGH /\ _ticks_diff(t, last_rem) > rem_ms
         THEN (IF ~quiet THEN "reminder" ELSE "none")
    ELSE IF prev # LVL_GOOD /\ lvl = LVL_GOOD THEN "recovery"
    ELSE "none"

\* which alert the if/elif chain of main() hands to tg_send_alert
AlertKind(prev, lvl, t, last_rem, rem_ms, quiet, wlan) ==
    IF ~(wlan /\ TG_ENABLE) THEN "none"
    ELSE IF prev # LVL_HIGH /\ lvl = LVL_HIGH THEN (IF quiet THEN "none" ELSE "high")
    ELSE IF lvl = LVL_HIGH /\ _ticks_diff(t, last_rem) > rem_ms
         THEN (IF ~quiet THEN "reminder" ELSE "none")
    ELSE IF prev = LVL_HIGH /\ lvl = LVL_GOOD THEN "recovery"
    ELSE "none"

\* (mutation: only the first alert restarts the reminder interval)
RemindAfter_FirstAlertOnly(kind, sent_ok, t, last_rem) ==
    IF kind = "high" /\ sent_ok THEN t ELSE last_rem

\* last_remind moves only when a HIGH alert or reminder was delivered
RemindAfter(kind, sent_ok, t, last_rem) ==
    IF kind \in {"high", "reminder"} /\ sent_ok THEN t ELSE last_rem

\* (mutation: the level is remembered inside the Wi-Fi branch only)
PrevLvlAfter_OnlyWhenConnected(prev, lvl, wlan) == IF wlan THEN lvl ELSE prev

\* prev_lvl = lvl, after the alert chain and outside the Wi-Fi test
PrevLvlAfter(prev, lvl, wlan) == lvl

\* the record of an iteration that handed nothing to the dispatcher
NoTick ==
    [poll |-> "none", lvl_before |-> LVL_GOOD, lvl |-> LVL_GOOD, quiet |-> FALSE,
     wlan |-> FALSE, sent |-> <<>>, high_sent |-> FALSE, restarts |-> <<>>,
     scd_cmds |-> <<>>]

\* control-loop state while another component is exercised
LoopIdle ==
    /\ warn_on = 800
    /\ high_on = 1500
    /\ remind_ms = 1200000
    /\ last_ready_poll = 0
    /\ last_sample_ms = None
    /\ co2 = None /\ temp = None /\ rh = None
    /\ co2_f = None /\ temp_f = None /\ rh_f = None
    /\ last_co2_for_trend = None
    /\ last_temp_for_trend = None
    /\ last_rh_for_trend = None
    /\ trend_dir = 0 /\ temp_trend_dir = 0 /\ rh_trend_dir = 0
    /\ prev_lvl = LVL_GOOD
    /\ last_remind = 0
    /\ warm_start = 0
    /\ last_restart = 0
    /\ fast_recovery_done = FALSE
    /\ nsamples = 0
    /\ tick = NoTick

----------------------------------------------------------------------------
\* sensor_i2c.py: the protocol codec.  Bytes are 0..255, byte strings sequences.

CRC_INIT == 255     \* crc = 0xFF
CRC_POLY == 49      \* 0x31

\* a ^ b on naturals
RECURSIVE Xor(_, _)
Xor(a, b) ==
    IF a = 0 THEN b
    ELSE IF b = 0 THEN a
    ELSE (((a % 2) + (b % 2)) % 2) + 2 * Xor(a \div 2, b \div 2)

CrcShift_NoPoly(crc) == (crc * 2) % 256

\* one round of the inner loop: shift left, xor the polynomial if bit 7 was set
CrcShift(crc) ==
    IF (crc \div 128) % 2 = 1
    THEN Xor((crc * 2) % 256, CRC_POLY)
    ELSE (crc * 2) % 256

\* for _ in range(8)
RECURSIVE CrcRounds(_, _)
CrcRounds(crc, n) == IF n = 0 THEN crc ELSE CrcRounds(CrcShift(crc), n - 1)

\* for b in data: crc ^= b; eight rounds
RECURSIVE CrcFrom(_, _)
CrcFrom(crc, data) ==
    IF data = <<>> THEN crc
    ELSE CrcFrom(CrcRounds(Xor(crc, Head(data)), 8), Tail(data))

crc8(data) == CrcFrom(CRC_INIT, data)

\* bytes([(w >> 8) & 0xFF, w & 0xFF])
HiLo(w) == <<(w \div 256) % 256, w % 256>>

RECURSIVE ArgBytes(_)
ArgBytes(ws) ==
    IF ws = <<>> THEN <<>>
    ELSE LET d == HiLo(Head(ws)) IN d \o <<crc8(d)>> \o ArgBytes(Tail(ws))

RECURSIVE ArgBytes_LowByteFirst(_)
ArgBytes_LowByteFirst(ws) ==
    IF ws = <<>> THEN <<>>
    ELSE LET d == <<Head(ws) % 256, (Head(ws) \div 256) % 256>>
         IN  d \o <<crc8(d)>> \o ArgBytes_LowByteFirst(Tail(ws))

build_cmd_LowByteFirst(c, ws) == HiLo(c) \o ArgBytes_LowByteFirst(ws)

\* build_cmd(cmd, args_words); an empty or absent argument list adds nothing
build_cmd(c, ws) == HiLo(c) \o ArgBytes(ws)

\* the words of a buffer of 3k bytes, check bytes ignored
RECURSIVE GroupWords(_)
GroupWords(b) ==
    IF b = <<>> THEN <<>>
    ELSE <<b[1] * 256 + b[2]>> \o GroupWords(SubSeq(b, 4, Len(b)))

ParseGroups_FirstGroupOnly(b, acc) ==
    IF b = <<>> THEN [ok |-> TRUE, err |-> "", words |-> acc]
    ELSE IF crc8(SubSeq(b, 1, 2)) # b[3]
    THEN [ok |-> FALSE, err |-> "CRC mismatch", words |-> <<>>]
    ELSE [ok |-> TRUE, err |-> "", words |-> acc \o GroupWords(b)]

\* the loop of parse_words_with_crc over a buffer of 3k bytes
RECURSIVE ParseGroups(_, _)
ParseGroups(b, acc) ==
    IF b = <<>> THEN [ok |-> TRUE, err |-> "", words |-> acc]
    ELSE IF crc8(SubSeq(b, 1, 2)) # b[3]
    THEN [ok |-> FALSE, err |-> "CRC mismatch", words |-> <<>>]
    ELSE ParseGroups(SubSeq(b, 4, Len(b)), Append(acc, b[1] * 256 + b[2]))

parse_words_with_crc_WholeGroups(b) ==
    ParseGroups(SubSeq(b, 1, 3 * (Len(b) \div 3)), <<>>)

\* parse_words_with_crc(buf): the list it returns, or the ValueError it raises
parse_words_with_crc(b) ==
    IF Len(b) % 3 # 0 THEN [ok |-> FALSE, err |-> "Bad length", words |-> <<>>]
    ELSE ParseGroups(b, <<>>)

\* codec state while another component is exercised
CodecIdle ==
    /\ cmd = 0
    /\ args_words = <<>>
    /\ out = None
    /\ buf = None
    /\ words = None
    /\ buf_from = "none"

----------------------------------------------------------------------------
\* state_store.py and telegram_commands.py: the persisted settings

DEFAULT_WARN_ON == 800
DEFAULT_HIGH_ON == 1500
DEFAULT_REMIND_MIN == 20
WARN_MIN == 600
WARN_MAX == 1400
HIGH_MIN == 1000
HIGH_MAX == 3000
HIGH_OVER_WARN_MIN_GAP == 200
REMIND_MIN_MIN == 5
REMIND_MIN_MAX == 120

\* a value of the loaded dict: an integer, something int() rejects, or no key
IntVal(v) == [kind |-> "int", v |-> v]
Junk == [kind |-> "junk", v |-> 0]
Missing == [kind |-> "missing", v |-> 0]

\* state.get(key, default)
Get(field, default) == IF field.kind = "missing" THEN IntVal(default) ELSE field

\* clamp_int(v, lo, hi): int(v) raising gives lo
clamp_int(f, lo, hi) ==
    LET x == IF f.kind = "junk" THEN lo ELSE f.v
    IN  IF x < lo THEN lo ELSE IF x > hi THEN hi ELSE x

validate_settings_GapExclusive(w, h, r) ==
    IF w < WARN_MIN \/ w > WARN_MAX THEN [ok |-> FALSE, msg |-> "WARN out of range"]
    ELSE IF h < HIGH_MIN \/ h > HIGH_MAX THEN [ok |-> FALSE, msg |-> "HIGH out of range"]
    ELSE IF h <= w + HIGH_OVER_WARN_MIN_GAP
    THEN [ok |-> FALSE, msg |-> "HIGH must be >= WARN+200"]
    ELSE IF r < REMIND_MIN_MIN \/ r > REMIND_MIN_MAX
    THEN [ok |-> FALSE, msg |-> "REM out of range"]
    ELSE [ok |-> TRUE, msg |-> "Updated"]

\* validate_settings(warn_on, high_on, remind_min): the pair it returns
validate_settings(w, h, r) ==
    IF w < WARN_MIN \/ w > WARN_MAX THEN [ok |-> FALSE, msg |-> "WARN out of range"]
    ELSE IF h < HIGH_MIN \/ h > HIGH_MAX THEN [ok |-> FALSE, msg |-> "HIGH out of range"]
    ELSE IF h < w + HIGH_OVER_WARN_MIN_GAP
    THEN [ok |-> FALSE, msg |-> "HIGH must be >= WARN+200"]
    ELSE IF r < REMIND_MIN_MIN \/ r > REMIND_MIN_MAX
    THEN [ok |-> FALSE, msg |-> "REM out of range"]
    ELSE [ok |-> TRUE, msg |-> "Updated"]

apply_state_defaults_ClampsOnly(ld) ==
    [warn_on |-> clamp_int(Get(ld.warn_on, DEFAULT_WARN_ON), WARN_MIN, WARN_MAX),
     high_on |-> clamp_int(Get(ld.high_on, DEFAULT_HIGH_ON), HIGH_MIN, HIGH_MAX),
     remind_min |-> clamp_int(Get(ld.remind_min, DEFAULT_REMIND_MIN),
                              REMIND_MIN_MIN, REMIND_MIN_MAX)]

\* apply_state_defaults(state): the three fields it leaves in the dict
apply_state_defaults(ld) ==
    LET w == clamp_int(Get(ld.warn_on, DEFAULT_WARN_ON), WARN_MIN, WARN_MAX)
        h == clamp_int(Get(ld.high_on, DEFAULT_HIGH_ON), HIGH_MIN, HIGH_MAX)
        r == clamp_int(Get(ld.remind_min, DEFAULT_REMIND_MIN),
                       REMIND_MIN_MIN, REMIND_MIN_MAX)
        short == h < w + HIGH_OVER_WARN_MIN_GAP
        h2 == IF short THEN w + HIGH_OVER_WARN_MIN_GAP ELSE h
        over == short /\ h2 > HIGH_MAX
    IN  [warn_on |-> IF over THEN HIGH_MAX - HIGH_OVER_WARN_MIN_GAP ELSE w,
         high_on |-> IF over THEN HIGH_MAX ELSE h2,
         remind_min |-> r]

\* int(parts[2]) for the texts a callback may carry; None when int() raises
int(txt) ==
    CASE txt = "50" -> Some(50)
      [] txt = "-50" -> Some(0 - 50)
      [] txt = "5" -> Some(5)
      [] txt = "-5" -> Some(0 - 5)
      [] txt = "2000" -> Some(2000)
      [] OTHER -> None

\* what apply_cfg_callback returns and does: the pair, the three fields of the
\* state dict afterwards, and whether save_state was called
Outcome(ok, msg, st, save) == [ok |-> ok, msg |-> msg, state |-> st, save |-> save]

cfg_commit_WritesBeforeValidating(st, w, h, r) ==
    LET v == validate_settings(w, h, r)
        new == [warn_on |-> w, high_on |-> h, remind_min |-> r]
    IN  IF ~v.ok THEN Outcome(FALSE, v.msg, new, FALSE)
        ELSE Outcome(TRUE, "Updated", new, TRUE)

cfg_commit_Unvalidated(st, w, h, r) ==
    Outcome(TRUE, "Updated", [warn_on |-> w, high_on |-> h, remind_min |-> r], TRUE)

\* the tail of apply_cfg_callback: validate, then write the dict and save
cfg_commit(st, w, h, r) ==
    LET v == validate_settings(w, h, r)
    IN  IF ~v.ok THEN Outcome(FALSE, v.msg, st, FALSE)
        ELSE Outcome(TRUE, "Updated",
                     [warn_on |-> w, high_on |-> h, remind_min |-> r], TRUE)

\* apply_cfg_callback(state, cb_data); cb is cb_data.split(":"), <<>> for an
\* empty or absent cb_data
cfg_result(st, cb) ==
    LET prefixed == Len(cb) >= 2 /\ cb[1] \in {"cfg", "thr"}
        is_thr == cb[1] = "thr"
        delta == int(cb[3])
    IN  IF ~prefixed THEN Outcome(FALSE, "Bad callback", st, FALSE)
        ELSE IF cb[2] = "refresh" THEN Outcome(TRUE, "Refreshed", st, FALSE)
        ELSE IF cb[2] = "preset" /\ Len(cb) >= 3
        THEN IF cb[3] = "home" THEN cfg_commit(st, 800, 1500, 20)
             ELSE Outcome(FALSE, "Unknown preset", st, FALSE)
        ELSE IF Len(cb) >= 3
        THEN IF delta = None THEN Outcome(FALSE, "Bad delta", st, FALSE)
             ELSE IF cb[2] = "warn"
             THEN cfg_commit(st, st.warn_on + delta[1], st.high_on, st.remind_min)
             ELSE IF cb[2] = "high"
             THEN cfg_commit(st, st.warn_on, st.high_on + delta[1], st.remind_min)
             ELSE IF cb[2] = "remind"
             THEN IF is_thr
                  THEN Outcome(FALSE, "Reminder is not available here", st, FALSE)
                  ELSE cfg_commit(st, st.warn_on, st.high_on, st.remind_min + delta[1])
             ELSE Outcome(FALSE, "Bad field", st, FALSE)
        ELSE Outcome(FALSE, "Bad callback", st, FALSE)

\* settings state while another component is exercised
SettingsIdle ==
    /\ loaded = Some([warn_on |-> Missing, high_on |-> Missing, remind_min |-> Missing])
    /\ state = None
    /\ saved = None
    /\ nsaves = 0

----------------------------------------------------------------------------
\* Arguments of a run

\* [cfg of diag_compute, arguments of diag_allow_scd_restart, max_events]
DiagRuns ==
    { [cfg |-> [window_ms |-> 60000, bad_score |-> 3],
       guard |-> [window_ms |-> 300000, max_attempts |-> 2],
       max_events |-> 50],
      [cfg |-> [window_ms |-> 2, bad_score |-> 3],
       guard |-> [window_ms |-> 2, max_attempts |-> 1],
       max_events |-> 2],
      [cfg |-> [window_ms |-> 0, bad_score |-> 1],
       guard |-> [window_ms |-> 1, max_attempts |-> 2],
       max_events |-> 50],
      [cfg |-> [window_ms |-> 60000, bad_score |-> 3],
       guard |-> [window_ms |-> 300000, max_attempts |-> 2],
       max_events |-> 0] }

\* default weights of diag_mark_i2c_err and diag_mark_recover
I2cErrWeight == 1
RecoverWeight == 2

\* the dict diag_init returns
DiagFresh(maxev) ==
    /\ max_events = maxev
    /\ score_events = <<>>
    /\ event_log = <<>>
    /\ err_counts = [c \in Codes |-> 0]
    /\ scd_restart_attempts = <<>>
    /\ runtime_degraded = FALSE
    /\ diag_i2c_err_total = 0
    /\ diag_recover_total = 0
    /\ diag_last_i2c_err_ms = None
    /\ diag_last_recover_ms = None
    /\ window_score = 0
    /\ window_err_rate_per_min = [num |-> 0, den |-> 1]
    /\ power_bad = FALSE

\* diagnostics state while another component is exercised
DiagIdle ==
    /\ DiagFresh(50)
    /\ cfg = [window_ms |-> 60000, bad_score |-> 3]
    /\ guard = [window_ms |-> 300000, max_attempts |-> 2]
    /\ allowed_log = <<>>

InitDiag ==
    /\ now = 0
    /\ op = "diag_init"
    /\ ret = None
    /\ nops = 0
    /\ \E r \in DiagRuns :
          /\ DiagFresh(r.max_events)
          /\ cfg = r.cfg
          /\ guard = r.guard
    /\ allowed_log = <<>>
    /\ BusIdle
    /\ LoopIdle
    /\ CodecIdle
    /\ SettingsIdle

----------------------------------------------------------------------------
\* Operations of the diagnostics engine, each called with now_ms = now

\* the caller's clock advances between calls (times never decrease)
DiagTick ==
    /\ now < MaxTime
    /\ \E t \in (now + 1)..MaxTime : now' = t
    /\ op' = "tick"
    /\ ret' = None
    /\ UNCHANGED <<nops, diagVars, busVars, loopVars, codecVars, settingsVars>>

\* diag_init(now_ms, max_events): the state is re-created
DiagInit ==
    /\ nops < MaxOps
    /\ nops' = nops + 1
    /\ op' = "diag_init"
    /\ ret' = None
    /\ max_events' = max_events
    /\ score_events' = <<>>
    /\ event_log' = <<>>
    /\ err_counts' = [c \in Codes |-> 0]
    /\ scd_restart_attempts' = <<>>
    /\ runtime_degraded' = FALSE
    /\ diag_i2c_err_total' = 0
    /\ diag_recover_total' = 0
    /\ diag_last_i2c_err_ms' = None
    /\ diag_last_recover_ms' = None
    /\ window_score' = 0
    /\ window_err_rate_per_min' = [num |-> 0, den |-> 1]
    /\ power_bad' = FALSE
    /\ allowed_log' = <<>>
    /\ UNCHANGED <<now, cfg, guard, busVars, loopVars, codecVars, settingsVars>>

diag_mark_i2c_err(weight) ==
    /\ nops < MaxOps
    /\ nops' = nops + 1
    /\ op' = "diag_mark_i2c_err"
    /\ ret' = None
    /\ diag_i2c_err_total' = CountAfter(diag_i2c_err_total, weight)
    /\ diag_last_i2c_err_ms' = Some(now)
    /\ score_events' = diag_add_event(score_events, max_events, now, "i2c_err", weight)
    /\ window_score' = ScoreAfterAddEvent(window_score, weight)
    /\ UNCHANGED <<now, max_events, event_log, err_counts, scd_restart_attempts,
                   runtime_degraded, diag_recover_total, diag_last_recover_ms,
                   window_err_rate_per_min, power_bad, cfg, guard,
                   allowed_log, busVars, loopVars, codecVars, settingsVars>>

diag_mark_recover(weight) ==
    /\ nops < MaxOps
    /\ nops' = nops + 1
    /\ op' = "diag_mark_recover"
    /\ ret' = None
    /\ diag_recover_total' = CountAfter(diag_recover_total, weight)
    /\ diag_last_recover_ms' = Some(now)
    /\ score_events' = diag_add_event(score_events, max_events, now, "recover", weight)
    /\ window_score' = ScoreAfterAddEvent(window_score, weight)
    /\ UNCHANGED <<now, max_events, event_log, err_counts, scd_restart_attempts,
                   runtime_degraded, diag_i2c_err_total, diag_last_i2c_err_ms,
                   window_err_rate_per_min, power_bad, cfg, guard,
                   allowed_log, busVars, loopVars, codecVars, settingsVars>>

diag_compute ==
    LET pruned == _prune_events(score_events, now, cfg.window_ms)
        r == ScoreLoop(pruned, 0, 0)
        per_min == PerMin(r[2], cfg.window_ms)
        bad == PowerBad(r[1], cfg.bad_score)
    IN  /\ nops < MaxOps
        /\ nops' = nops + 1
        /\ op' = "diag_compute"
        /\ score_events' = pruned
        /\ window_score' = r[1]
        /\ window_err_rate_per_min' = per_min
        /\ power_bad' = bad
        /\ ret' = [power_bad |-> bad, score |-> r[1], err_rate |-> per_min]
        /\ UNCHANGED <<now, max_events, event_log, err_counts, scd_restart_attempts,
                       runtime_degraded, diag_i2c_err_total, diag_recover_total,
                       diag_last_i2c_err_ms, diag_last_recover_ms, cfg, guard,
                       allowed_log, busVars, loopVars, codecVars, settingsVars>>

diag_record_event(code) ==
    /\ nops < MaxOps
    /\ nops' = nops + 1
    /\ op' = "diag_record_event"
    /\ ret' = None
    /\ event_log' = Last(Append(event_log, <<now, code>>), max_events)
    /\ err_counts' = [err_counts EXCEPT ![code] = @ + 1]
    /\ UNCHANGED <<now, max_events, score_events, scd_restart_attempts,
                   runtime_degraded, diag_i2c_err_total, diag_recover_total,
                   diag_last_i2c_err_ms, diag_last_recover_ms, window_score,
                   window_err_rate_per_min, power_bad, cfg, guard, allowed_log, busVars, loopVars, codecVars, settingsVars>>

\* (mutation: a denied request is recorded as an attempt too)
AttemptsAfter_RecordsDenied(attempts, now_ms, denied) == Append(attempts, now_ms)

\* scd_restart_attempts after the request: attempts.append(now_ms) unless denied
AttemptsAfter(attempts, now_ms, denied) ==
    IF denied THEN attempts ELSE Append(attempts, now_ms)

\* (mutation: the flag follows the latest request instead of latching)
DegradedAfter_NotSticky(flag, denied) == denied

\* runtime_degraded after a restart request that was denied or not
DegradedAfter(flag, denied) == flag \/ denied

diag_allow_scd_restart ==
    LET attempts == _prune_times(scd_restart_attempts, now, guard.window_ms)
        denied == RestartDenied(attempts, guard.max_attempts)
    IN  /\ nops < MaxOps
        /\ nops' = nops + 1
        /\ op' = "diag_allow_scd_restart"
        /\ runtime_degraded' = DegradedAfter(runtime_degraded, denied)
        /\ scd_restart_attempts' = AttemptsAfter(attempts, now, denied)
        /\ IF denied
           THEN /\ ret' = [allowed |-> FALSE, count |-> Len(attempts)]
                /\ allowed_log' = allowed_log
           ELSE /\ ret' = [allowed |-> TRUE, count |-> Len(attempts) + 1]
                /\ allowed_log' = Append(allowed_log, now)
        /\ UNCHANGED <<now, max_events, score_events, event_log, err_counts,
                       diag_i2c_err_total, diag_recover_total, diag_last_i2c_err_ms,
                       diag_last_recover_ms, window_score, window_err_rate_per_min,
                       power_bad, cfg, guard, busVars, loopVars, codecVars, settingsVars>>

NextDiag ==
    \/ DiagTick
    \/ DiagInit
    \/ diag_mark_i2c_err(I2cErrWeight)
    \/ diag_mark_recover(RecoverWeight)
    \/ diag_compute
    \/ \E c \in Codes : diag_record_event(c)
    \/ diag_allow_scd_restart

SpecDiag == InitDiag /\ [][NextDiag]_vars

----------------------------------------------------------------------------
\* Recovery requests to the bus manager; the caller keeps the returned
\* timestamp and passes it to the next request.

\* the caller's timer before the first request: boot time, or boot time minus
\* the cooldown (the idiom main() uses for its other timers)
InitialLastRecover == {0, 0 - I2C_RECOVERY_COOLDOWN_MS}

\* clock advances between requests: half a cooldown, one tick short of it, all of it
BusSteps == {I2C_RECOVERY_COOLDOWN_MS \div 2, I2C_RECOVERY_COOLDOWN_MS - 1,
             I2C_RECOVERY_COOLDOWN_MS}

InitBus ==
    /\ now = 0
    /\ op = "boot"
    /\ ret = None
    /\ nops = 0
    /\ SHARED_I2C_BUS \in BOOLEAN
    /\ scd_i2c = 0
    /\ oled_i2c = oled_probe(SHARED_I2C_BUS, 0, 1)
    /\ handles_made = (IF SHARED_I2C_BUS THEN 1 ELSE 2)
    /\ last_i2c_recover \in InitialLastRecover
    /\ rebind_log = <<>>
    /\ DiagIdle
    /\ LoopIdle
    /\ CodecIdle
    /\ SettingsIdle

BusTick ==
    /\ \E d \in BusSteps :
          /\ now + d <= MaxCooldowns * I2C_RECOVERY_COOLDOWN_MS
          /\ now' = now + d
    /\ op' = "tick"
    /\ ret' = None
    /\ UNCHANGED <<nops, diagVars, busVars, loopVars, codecVars, settingsVars>>

recover_shared_i2c ==
    LET r == recover_result(SHARED_I2C_BUS, now, last_i2c_recover, scd_i2c, handles_made)
    IN  /\ nops < MaxBusOps
        /\ nops' = nops + 1
        /\ op' = "recover_shared_i2c"
        /\ ret' = r
        /\ IF r.recovered
           THEN /\ scd_i2c' = r.i2c
                /\ handles_made' = handles_made + 1
                /\ rebind_log' = Append(rebind_log, now)
           ELSE UNCHANGED <<scd_i2c, handles_made, rebind_log>>
        /\ last_i2c_recover' = r.last
        /\ UNCHANGED <<now, SHARED_I2C_BUS, oled_i2c, diagVars, loopVars, codecVars, settingsVars>>

\* the display is set up again from the sensor's current handle
get_oled_probe ==
    /\ nops < MaxBusOps
    /\ nops' = nops + 1
    /\ op' = "get_oled_probe"
    /\ oled_i2c' = oled_probe(SHARED_I2C_BUS, scd_i2c, handles_made)
    /\ ret' = Some(oled_i2c')
    /\ handles_made' = (IF SHARED_I2C_BUS THEN handles_made ELSE handles_made + 1)
    /\ UNCHANGED <<now, SHARED_I2C_BUS, scd_i2c, last_i2c_recover, rebind_log,
                   diagVars, loopVars, codecVars, settingsVars>>

NextBus ==
    \/ BusTick
    \/ recover_shared_i2c
    \/ get_oled_probe

SpecBus == InitBus /\ [][NextBus]_vars

----------------------------------------------------------------------------
\* The control loop of main(): one action per path through an iteration of
\* "while True".  Left out are the parts of the iteration that neither read
\* nor write the variables above in a way that changes them: the OLED
\* (re)initialisation and drawing, the ready_raw log line, the Wi-Fi reconnect
\* timer, and tg_poll_commands, which returns warn_on, high_on and remind_min
\* unchanged because TG_INLINE_KEYBOARD_ENABLE is False (callbacks are answered
\* "Buttons disabled" and text commands only send cards).

\* state["warn_on"], state["high_on"], state["remind_min"] after apply_state_defaults
Settings == { [warn_on |-> 800, high_on |-> 1500, remind_min |-> 20],
              [warn_on |-> 1400, high_on |-> 1600, remind_min |-> 5] }

\* the reply words (co2_raw, t_raw, rh_raw) of read-measurement.  The t_raw and
\* rh_raw used are multiples of 65535/5, for which the decoded temperature and
\* humidity are whole tenths: -45.0, 25.0 and 130.0 C, 0, 40 and 100 %.
Replies == { <<349, 26214, 26214>>,
             <<350, 26214, 26214>>,
             <<2000, 26214, 26214>>,
             <<4900, 65535, 65535>>,
             <<10001, 0, 0>> }

\* what read_measurement returns: co2_raw, temperature and humidity (tenths)
Samples == { read_measurement(w) : w \in Replies }

\* time from one iteration's time.ticks_ms() to the next one's
LoopSteps == {READY_POLL_MS \div 2, SCD_FAST_RECOVERY_MS, 300001}

\* time.localtime()[3] at the iteration
Hours == {9, 10}

\* the sub-steps of a restart that raise (each is caught on its own): none,
\* every other one, all of them
FailSets == { {}, {"stop", "reinit"}, {"wake", "start"},
              {"stop", "wake", "reinit", "start"} }

InitLoop ==
    /\ now = 0
    /\ op = "boot"
    /\ ret = None
    /\ nops = 0
    /\ \E st \in Settings :
          /\ warn_on = st.warn_on
          /\ high_on = st.high_on
          /\ remind_ms = st.remind_min * 60 * 1000
          /\ last_remind = 0 - st.remind_min * 60 * 1000
    /\ last_ready_poll = 0 - READY_POLL_MS
    /\ last_sample_ms = None
    /\ co2 = None /\ temp = None /\ rh = None
    /\ co2_f = None /\ temp_f = None /\ rh_f = None
    /\ last_co2_for_trend = None
    /\ last_temp_for_trend = None
    /\ last_rh_for_trend = None
    /\ trend_dir = 0 /\ temp_trend_dir = 0 /\ rh_trend_dir = 0
    /\ prev_lvl = LVL_GOOD
    /\ warm_start = 0
    /\ last_restart = 0
    /\ fast_recovery_done = FALSE
    /\ nsamples = 0
    /\ tick = NoTick
    /\ DiagIdle
    /\ BusIdle
    /\ CodecIdle
    /\ SettingsIdle

PollDue(t) == _ticks_diff(t, last_ready_poll) >= READY_POLL_MS

RestartCmds_AbortsOnFailure(fails) ==
    IF "stop" \in fails THEN << <<"stop", FALSE>> >>
    ELSE IF "wake" \in fails THEN << <<"stop", TRUE>>, <<"wake", FALSE>> >>
    ELSE IF "reinit" \in fails
    THEN << <<"stop", TRUE>>, <<"wake", TRUE>>, <<"reinit", FALSE>> >>
    ELSE << <<"stop", TRUE>>, <<"wake", TRUE>>, <<"reinit", TRUE>>,
            <<"start", "start" \notin fails>> >>

\* stop, wake, reinit, start, each in its own try/except: <<command, succeeded>>
RestartCmds(fails) ==
    << <<"stop", "stop" \notin fails>>, <<"wake", "wake" \notin fails>>,
       <<"reinit", "reinit" \notin fails>>, <<"start", "start" \notin fails>> >>

FastDue_IgnoresDone(t, done, lsm, ws) ==
    /\ lsm = None
    /\ _ticks_diff(t, ws) >= SCD_FAST_RECOVERY_MS

\* (not fast_recovery_done) and (last_sample_ms is None) and
\* time.ticks_diff(now, warm_start) >= SCD_FAST_RECOVERY_MS
FastDue(t, done, lsm, ws) ==
    /\ ~done
    /\ lsm = None
    /\ _ticks_diff(t, ws) >= SCD_FAST_RECOVERY_MS

\* stale_sensor: a sample exists and is older than SCD_RESTART_MS
StaleSensor(t, lsm) == lsm # None /\ _ticks_diff(t, lsm[1]) > SCD_RESTART_MS

\* (mutation: the forced restart does not look at last_restart)
ForcedDue_NoCooldown(t, co2v, lsm, lr) ==
    co2v = None \/ lsm = None \/ StaleSensor(t, lsm)

\* ((co2 is None) or (last_sample_ms is None) or stale_sensor) and
\* time.ticks_diff(now, last_restart) >= SCD_RESTART_MS
ForcedDue(t, co2v, lsm, lr) ==
    /\ (co2v = None \/ lsm = None \/ StaleSensor(t, lsm))
    /\ _ticks_diff(t, lr) >= SCD_RESTART_MS

\* the restart part of an iteration, given co2 and last_sample_ms after the poll
RestartSection(t, co2v, lsm, fails) ==
    LET stale_sensor == StaleSensor(t, lsm)
        fast == FastDue(t, fast_recovery_done, lsm, warm_start)
        lr == IF fast THEN t ELSE last_restart
        forced == ForcedDue(t, co2v, lsm, lr)
    IN  [fast_recovery_done |-> fast_recovery_done \/ fast,
         last_restart |-> IF forced THEN t ELSE lr,
         restarts |-> (IF fast THEN <<"fast">> ELSE <<>>)
                      \o (IF forced THEN <<"forced">> ELSE <<>>),
         scd_cmds |-> (IF fast THEN RestartCmds(fails) ELSE <<>>)
                      \o (IF forced THEN RestartCmds(fails) ELSE <<>>)]

\* the iteration after its poll part, when the poll accepted no sample
LoopRest(t, poll, fails) ==
    LET rs == RestartSection(t, co2, last_sample_ms, fails)
    IN  /\ fast_recovery_done' = rs.fast_recovery_done
        /\ last_restart' = rs.last_restart
        /\ tick' = [poll |-> poll, lvl_before |-> prev_lvl, lvl |-> prev_lvl,
                    quiet |-> FALSE, wlan |-> FALSE, sent |-> <<>>,
                    high_sent |-> FALSE,
                    restarts |-> rs.restarts, scd_cmds |-> rs.scd_cmds]

\* the sensor operations of an iteration that sit inside a try/except Exception
Guarded == {"poll", "stop", "wake", "reinit", "start"}

Escapes_PollUnguarded(raised) == raised \ (Guarded \ {"poll"})

\* the exceptions raised in an iteration that no handler of the loop catches
Escapes(raised) == raised \ Guarded

\* last_sample_ms = now
StampSample_KeepsOld(t, old) == old

StampSample(t, old) == Some(t)

\* one pass of `while True`; an exception that escapes ends main()
LoopStep(t, raised) ==
    /\ op # "halt"
    /\ nops' = nops + 1
    /\ now' = t
    /\ op' = IF Escapes(raised) = {} THEN "tick" ELSE "halt"
    /\ ret' = None
    /\ UNCHANGED <<diagVars, busVars, codecVars, settingsVars, warn_on, high_on, remind_ms, warm_start>>

\* the poll is not due yet
TickNoPoll(d, fails) ==
    /\ nops < MaxTicks
    /\ ~PollDue(now + d)
    /\ LoopStep(now + d, fails)
    /\ LoopRest(now + d, "skipped", fails)
    /\ UNCHANGED <<last_ready_poll, sampleVars, prev_lvl, last_remind>>

\* get_data_ready_raw or read_measurement raises: "Sensor read error"
TickPollError(d, fails) ==
    /\ nops < MaxTicks
    /\ PollDue(now + d)
    /\ LoopStep(now + d, {"poll"} \cup fails)
    /\ last_ready_poll' = now + d
    /\ LoopRest(now + d, "error", fails)
    /\ UNCHANGED <<sampleVars, prev_lvl, last_remind>>

\* (ready_raw & 0x07FF) == 0
TickNotReady(d, fails) ==
    /\ nops < MaxTicks
    /\ PollDue(now + d)
    /\ LoopStep(now + d, fails)
    /\ last_ready_poll' = now + d
    /\ LoopRest(now + d, "not_ready", fails)
    /\ UNCHANGED <<sampleVars, prev_lvl, last_remind>>

\* co2, temp, rh = scd.read_measurement(); co2 out of range: sleep and continue
TickImplausible(d, s) ==
    /\ nops < MaxTicks
    /\ PollDue(now + d)
    /\ ~Plausible(s.co2)
    /\ LoopStep(now + d, {})
    /\ last_ready_poll' = now + d
    /\ co2' = Some(s.co2)
    /\ temp' = Some(s.temp)
    /\ rh' = Some(s.rh)
    /\ tick' = [poll |-> "implausible", lvl_before |-> prev_lvl, lvl |-> prev_lvl,
                quiet |-> FALSE, wlan |-> FALSE, sent |-> <<>>,
                high_sent |-> FALSE, restarts |-> <<>>, scd_cmds |-> <<>>]
    /\ UNCHANGED <<last_sample_ms, co2_f, temp_f, rh_f, last_co2_for_trend,
                   last_temp_for_trend, last_rh_for_trend, trend_dir,
                   temp_trend_dir, rh_trend_dir, nsamples, prev_lvl, last_remind,
                   last_restart, fast_recovery_done>>

\* tg_send's outcome, which matters for a HIGH alert or reminder only
SendChoices(kind) == IF kind \in {"high", "reminder"} THEN BOOLEAN ELSE {FALSE}

\* a plausible sample: filter, trends, level, alert, then the rest of the iteration
TickAccepted(d, s, hour, wlan) ==
    LET t == now + d
        c_f == ema(co2_f, s.co2, EMA_CO2_ALPHA)
        t_f == ema(temp_f, s.temp + TEMP_CORR_C, EMA_T_ALPHA)
        r_f == ema(rh_f, s.rh, EMA_RH_ALPHA)
        lvl == level_from_co2(c_f[1], warn_on, high_on)
        quiet == is_quiet_now(hour)
        kind == AlertKind(prev_lvl, lvl, t, last_remind, remind_ms, quiet, wlan)
        rs == RestartSection(t, Some(s.co2), StampSample(t, last_sample_ms), {})
    IN  /\ nops < MaxTicks
        /\ PollDue(t)
        /\ Plausible(s.co2)
        /\ nsamples <= MaxSamples
        /\ LoopStep(t, {})
        /\ nsamples' = nsamples + 1
        /\ last_ready_poll' = t
        /\ co2' = Some(s.co2)
        /\ temp' = Some(s.temp + TEMP_CORR_C)
        /\ rh' = Some(s.rh)
        /\ co2_f' = c_f
        /\ temp_f' = t_f
        /\ rh_f' = r_f
        /\ trend_dir' = TrendOf(c_f, last_co2_for_trend, UI_TREND_DEADBAND)
        /\ temp_trend_dir' = TrendOf(t_f, last_temp_for_trend, UI_TEMP_TREND_DEADBAND)
        /\ rh_trend_dir' = TrendOf(r_f, last_rh_for_trend, UI_RH_TREND_DEADBAND)
        /\ last_co2_for_trend' = c_f
        /\ last_temp_for_trend' = t_f
        /\ last_rh_for_trend' = r_f
        /\ last_sample_ms' = StampSample(t, last_sample_ms)
        /\ prev_lvl' = PrevLvlAfter(prev_lvl, lvl, wlan)
        /\ fast_recovery_done' = rs.fast_recovery_done
        /\ last_restart' = rs.last_restart
        /\ \E sent_ok \in SendChoices(kind) :
              /\ last_remind' = RemindAfter(kind, sent_ok, t, last_remind)
              /\ tick' = [poll |-> "accepted", lvl_before |-> prev_lvl, lvl |-> lvl,
                          quiet |-> quiet, wlan |-> wlan,
                          sent |-> IF kind = "none" THEN <<>> ELSE <<kind>>,
                          high_sent |-> sent_ok,
                          restarts |-> rs.restarts, scd_cmds |-> rs.scd_cmds]

\* whether the restart part of the iteration at time t issues sensor commands
Restarts(t) == RestartSection(t, co2, last_sample_ms, {}).restarts # <<>>

\* the sub-step failures to consider at time t
FailChoices(t) == IF Restarts(t) THEN FailSets ELSE {{}}

NextLoop ==
    \/ \E d \in LoopSteps : \E f \in FailChoices(now + d) : TickNoPoll(d, f)
    \/ \E d \in LoopSteps : \E f \in FailChoices(now + d) : TickPollError(d, f)
    \/ \E d \in LoopSteps : \E f \in FailChoices(now + d) : TickNotReady(d, f)
    \/ \E d \in LoopSteps, s \in Samples : TickImplausible(d, s)
    \/ \E d \in LoopSteps, s \in Samples, hour \in Hours, wlan \in BOOLEAN :
          TickAccepted(d, s, hour, wlan)

SpecLoop == InitLoop /\ [][NextLoop]_vars

----------------------------------------------------------------------------
\* Properties of the diagnostics engine (checked under SpecDiag)

\* the allowed attempts of log that lie within w of time t
WithinWindow(log, t, w) == {i \in DOMAIN log : t - log[i] <= w}

\* the allowed attempts made before the restart request just answered
PrevAllowed ==
    IF ret.allowed THEN SubSeq(allowed_log, 1, Len(allowed_log) - 1)
    ELSE allowed_log

\* C1: with fixed window_ms and max_attempts and non-decreasing call times, a
\* restart request is allowed exactly when fewer than max_attempts previously
\* allowed attempts lie within window_ms of now; hence no span of window_ms
\* ever holds more than max_attempts allowed restarts.
C1_RestartGuard ==
    /\ op = "diag_allow_scd_restart" =>
          (ret.allowed <=>
             Cardinality(WithinWindow(PrevAllowed, now, guard.window_ms))
                < guard.max_attempts)
    /\ \A i \in DOMAIN allowed_log :
          Cardinality({j \in DOMAIN allowed_log :
                          /\ allowed_log[j] >= allowed_log[i]
                          /\ allowed_log[j] - allowed_log[i] <= guard.window_ms})
             <= guard.max_attempts

\* max_attempts=2, window=300000: allowed at t=0 and t=1, denied at t=2
C1_Witness ==
    /\ op = "diag_allow_scd_restart"
    /\ guard = [window_ms |-> 300000, max_attempts |-> 2]
    /\ allowed_log = <<0, 1>>
    /\ now = 2
    /\ ~ret.allowed

\* C2: runtime_degraded is false after diag_init, true after a denied restart
\* request, and once true it stays true through every diagnostics operation
\* other than diag_init; it only ever becomes true by a denied request.
C2_DegradedSticky ==
    /\ [](op = "diag_init" => ~runtime_degraded)
    /\ [](op = "diag_allow_scd_restart" /\ ~ret.allowed => runtime_degraded)
    /\ [][runtime_degraded /\ op' # "diag_init" => runtime_degraded']_vars
    /\ [][~runtime_degraded /\ runtime_degraded' =>
            op' = "diag_allow_scd_restart" /\ ~ret'.allowed]_vars

\* a later request is allowed again (old attempts pruned) and the flag is still set
C2_Witness ==
    /\ op = "diag_allow_scd_restart"
    /\ ret.allowed
    /\ runtime_degraded

\* the weights of the events, summed from the newest to the oldest
RECURSIVE WeightTotal(_)
WeightTotal(events) ==
    IF Len(events) = 0 THEN 0
    ELSE events[Len(events)][3] + WeightTotal(SubSeq(events, 1, Len(events) - 1))

\* C5: diag_compute returns score = the sum of the weights of the events left
\* in the list after pruning, and power_bad is true exactly when
\* score >= bad_score.
C5_ComputeScore ==
    op = "diag_compute" =>
        /\ ret.score = WeightTotal(score_events)
        /\ ret.power_bad <=> (ret.score >= cfg.bad_score)
        /\ window_score = ret.score
        /\ power_bad = ret.power_bad

\* window=60000, bad_score=3: weights 1, 1, 2 at t=0,1,2; compute at t=3
C5_Witness ==
    /\ op = "diag_compute"
    /\ cfg = [window_ms |-> 60000, bad_score |-> 3]
    /\ now = 3
    /\ score_events = << <<0, "i2c_err", 1>>, <<1, "i2c_err", 1>>, <<2, "recover", 2>> >>
    /\ ret.score = 4
    /\ ret.power_bad

\* C6: the score events are always ordered by timestamp, and right after
\* diag_compute every retained event satisfies now - ts <= window_ms.
C6_EventsOrderedAndPruned ==
    /\ \A i, j \in DOMAIN score_events :
          i < j => score_events[i][1] <= score_events[j][1]
    /\ op = "diag_compute" =>
          \A i \in DOMAIN score_events : now - score_events[i][1] <= cfg.window_ms

\* a compute that dropped an old event and kept a recent one
C6_Witness ==
    /\ op = "diag_compute"
    /\ max_events = 50
    /\ Len(score_events) >= 1
    /\ diag_i2c_err_total + diag_recover_total > Len(score_events)

\* the retained events of one kind
OfKind(events, kind) == {i \in DOMAIN events : events[i][2] = kind}

\* C28: diag_compute returns a fault rate equal to (number of retained
\* "i2c_err" events) * 60000 / window_ms; "recover" events add their weight to
\* the score but nothing to the rate, and the rate is 0 when window_ms is 0.
C28_FaultRate ==
    op = "diag_compute" =>
        LET faults == Cardinality(OfKind(score_events, "i2c_err"))
            recovers == Cardinality(OfKind(score_events, "recover"))
        IN  /\ cfg.window_ms > 0 =>
                  ret.err_rate = [num |-> faults * 60000, den |-> cfg.window_ms]
            /\ cfg.window_ms = 0 => ret.err_rate = [num |-> 0, den |-> 1]
            /\ ret.score = faults * I2cErrWeight + recovers * RecoverWeight

\* one fault and one recover retained in a 2 ms window: rate 30000, score 3
C28_Witness ==
    /\ op = "diag_compute"
    /\ cfg.window_ms = 2
    /\ Cardinality(OfKind(score_events, "i2c_err")) = 1
    /\ Cardinality(OfKind(score_events, "recover")) = 1
    /\ ret.err_rate = [num |-> 60000, den |-> 2]
    /\ ret.score = 3

\* the lifetime counters and timestamps of the state
Lifetime == <<diag_i2c_err_total, diag_recover_total, diag_last_i2c_err_ms,
              diag_last_recover_ms, err_counts>>

\* C29: each diag_mark_i2c_err adds exactly 1 to diag_i2c_err_total and sets
\* diag_last_i2c_err_ms to now, each diag_mark_recover adds exactly 1 to
\* diag_recover_total and sets diag_last_recover_ms to now, each leaves the
\* other counters alone, and compute (with its pruning) and the restart guard
\* leave every counter and timestamp as it was.
C29_LifetimeCounters ==
    [][/\ (op' = "diag_mark_i2c_err") =>
              /\ diag_i2c_err_total' = diag_i2c_err_total + 1
              /\ diag_last_i2c_err_ms' = Some(now')
              /\ UNCHANGED <<diag_recover_total, diag_last_recover_ms, err_counts>>
       /\ (op' = "diag_mark_recover") =>
              /\ diag_recover_total' = diag_recover_total + 1
              /\ diag_last_recover_ms' = Some(now')
              /\ UNCHANGED <<diag_i2c_err_total, diag_last_i2c_err_ms, err_counts>>
       /\ (op' = "diag_compute" \/ op' = "diag_allow_scd_restart" \/ op' = "tick") =>
              UNCHANGED Lifetime
       /\ (op' = "diag_record_event") =>
              /\ UNCHANGED <<diag_i2c_err_total, diag_recover_total,
                             diag_last_i2c_err_ms, diag_last_recover_ms>>
              /\ \A c \in Codes : err_counts'[c] >= err_counts[c]
      ]_vars

\* both counters have grown, then a compute pruned events and kept the counters
C29_Witness ==
    /\ op = "diag_compute"
    /\ diag_i2c_err_total = 2
    /\ diag_recover_total = 1
    /\ diag_last_i2c_err_ms = Some(1)
    /\ diag_last_recover_ms = Some(0)
    /\ Len(score_events) < 3

\* the health snapshot of the state
Snapshot == <<window_score, window_err_rate_per_min, power_bad>>

\* C30: window_score, window_err_rate_per_min and power_bad are changed only
\* by diag_compute (diag_init creates them), which stores the values it
\* returns; diag_mark_i2c_err, diag_mark_recover, diag_record_event and
\* diag_allow_scd_restart leave all three as the last compute left them.
C30_SnapshotOnlyByCompute ==
    [][/\ (Snapshot' # Snapshot) => (op' = "diag_compute" \/ op' = "diag_init")
       /\ (op' = "diag_compute") =>
              /\ window_score' = ret'.score
              /\ window_err_rate_per_min' = ret'.err_rate
              /\ power_bad' = ret'.power_bad
       /\ (op' = "diag_mark_i2c_err" \/ op' = "diag_mark_recover"
              \/ op' = "diag_record_event" \/ op' = "diag_allow_scd_restart") =>
              UNCHANGED Snapshot
      ]_vars

\* a fault recorded after a compute: the list scores 2, the snapshot still 1
C30_Witness ==
    /\ op = "diag_mark_i2c_err"
    /\ window_score = 1
    /\ window_err_rate_per_min.num = 60000
    /\ ~power_bad
    /\ WeightTotal(score_events) = 2

\* the event a mark adds, and the list with it appended
Marked == op' = "diag_mark_i2c_err" \/ op' = "diag_mark_recover"
AddedKind == IF op' = "diag_mark_i2c_err" THEN "i2c_err" ELSE "recover"
AddedWeight == IF op' = "diag_mark_i2c_err" THEN I2cErrWeight ELSE RecoverWeight
WithAdded == Append(score_events, <<now', AddedKind, AddedWeight>>)

\* C38: the score-event list never holds more than max_events entries; after
\* a mark it holds the newest entries of the old list with the new event
\* appended, the oldest being dropped beyond max_events whatever their age,
\* while the lifetime counters count every mark.
C38_CapKeepsNewest ==
    /\ [](Len(score_events) <= max_events)
    /\ [][Marked =>
            LET n == IF Len(WithAdded) > max_events THEN max_events
                     ELSE Len(WithAdded)
            IN  /\ Len(score_events') = n
                /\ \A i \in 1..n :
                      score_events'[i] = WithAdded[Len(WithAdded) - n + i]
                /\ diag_i2c_err_total' + diag_recover_total'
                      = diag_i2c_err_total + diag_recover_total + 1]_vars

\* C39: the attempt list never holds more than max_attempts timestamps; a
\* denied request adds nothing to it; and a request made when the oldest
\* recorded attempt is more than window_ms old is allowed, while
\* runtime_degraded, once set, stays set.
C39_AttemptList ==
    /\ [](Len(scd_restart_attempts) <= guard.max_attempts)
    /\ [][(op' = "diag_allow_scd_restart" /\ ~ret'.allowed) =>
            /\ scd_restart_attempts'
                 = _prune_times(scd_restart_attempts, now', guard.window_ms)
            /\ \A i \in DOMAIN scd_restart_attempts' :
                  \E j \in DOMAIN scd_restart_attempts :
                     scd_restart_attempts'[i] = scd_restart_attempts[j]]_vars
    /\ [][(/\ op' = "diag_allow_scd_restart"
           /\ scd_restart_attempts # <<>>
           /\ now' - scd_restart_attempts[1] > guard.window_ms) =>
            /\ ret'.allowed
            /\ runtime_degraded => runtime_degraded']_vars

\* window 2, max_attempts 1: allowed at 0, denied at 1 (the list stays <<0>>),
\* allowed at 3 when the attempt of 0 is 3 old; the flag set at 1 is still set
C39_Witness ==
    /\ op = "diag_allow_scd_restart"
    /\ guard = [window_ms |-> 2, max_attempts |-> 1]
    /\ now = 3
    /\ ret.allowed
    /\ scd_restart_attempts = <<3>>
    /\ allowed_log = <<0, 3>>
    /\ runtime_degraded

----------------------------------------------------------------------------
\* Properties of the bus manager (checked under SpecBus)

\* C3: in shared topology, with the returned timestamp fed back, consecutive
\* performed rebinds are at least I2C_RECOVERY_COOLDOWN_MS apart, so faults
\* within one cooldown interval produce at most one rebind.
C3_RebindCooldown ==
    \A i \in 1..(Len(rebind_log) - 1) :
        rebind_log[i + 1] - rebind_log[i] >= I2C_RECOVERY_COOLDOWN_MS

\* a second fault inside the cooldown of a performed rebind, refused
C3_Witness ==
    /\ op = "recover_shared_i2c"
    /\ ~ret.recovered
    /\ Len(rebind_log) = 1
    /\ now > rebind_log[1]
    /\ now - rebind_log[1] < I2C_RECOVERY_COOLDOWN_MS

\* C4: a request made in separate topology or inside the cooldown is a no-op
\* (recovered=false, the timestamp passed in, the driver's handle untouched); a
\* performed one returns recovered=true, the timestamp now, and the driver's
\* handle is the returned fresh handle.
C4_RecoverFrame ==
    [][op' = "recover_shared_i2c" =>
         LET performed == /\ SHARED_I2C_BUS
                          /\ now - last_i2c_recover >= I2C_RECOVERY_COOLDOWN_MS
         IN  /\ ret'.recovered = performed
             /\ ~performed => /\ ret'.last = last_i2c_recover
                              /\ ret'.i2c = scd_i2c
                              /\ scd_i2c' = scd_i2c
             /\ performed => /\ ret'.last = now
                             /\ ret'.i2c # scd_i2c
                             /\ scd_i2c' = ret'.i2c]_vars

\* a refused request that left the handle made by the earlier rebind in place
C4_Witness ==
    /\ op = "recover_shared_i2c"
    /\ SHARED_I2C_BUS
    /\ ~ret.recovered
    /\ ret.last = last_i2c_recover
    /\ scd_i2c = 1
    /\ ret.i2c = 1

----------------------------------------------------------------------------
\* Properties of the control loop (checked under SpecLoop)

Handed(kind) == \E i \in DOMAIN tick.sent : tick.sent[i] = kind

\* the iteration accepted a sample that took the level from below HIGH to HIGH
CrossedToHigh ==
    /\ tick.poll = "accepted"
    /\ tick.lvl_before # LVL_HIGH
    /\ tick.lvl = LVL_HIGH

\* the iteration accepted a sample that took the level from HIGH to GOOD
CrossedToGood ==
    /\ tick.poll = "accepted"
    /\ tick.lvl_before = LVL_HIGH
    /\ tick.lvl = LVL_GOOD

C8_QuietMutesHigh ==
    tick.quiet => ~Handed("high") /\ ~Handed("reminder")

\* a crossing to HIGH in quiet hours with Wi-Fi up: nothing is handed over
C8_Witness ==
    /\ CrossedToHigh
    /\ tick.quiet
    /\ tick.wlan
    /\ tick.sent = <<>>

C10_ImplausibleChangesNothing ==
    [][tick'.poll = "implausible" =>
         /\ co2' = co2 /\ temp' = temp /\ rh' = rh
         /\ co2_f' = co2_f /\ temp_f' = temp_f /\ rh_f' = rh_f
         /\ trend_dir' = trend_dir
         /\ temp_trend_dir' = temp_trend_dir
         /\ rh_trend_dir' = rh_trend_dir
         /\ last_sample_ms' = last_sample_ms
         /\ prev_lvl' = prev_lvl
         /\ tick'.sent = <<>>]_vars

-----------------------------------------------------------------------------
\* Control loop: sensor faults, restarts and modes

Did(tk, kind) == \E i \in DOMAIN tk.restarts : tk.restarts[i] = kind
Raised(tk) == \E i \in DOMAIN tk.scd_cmds : ~tk.scd_cmds[i][2]

\* C11: an iteration whose poll (ready-status query or measurement read) fails
\* records a bus fault in the diagnostics state: the bus-fault counter goes up
\* by one and the last-fault time is the iteration's time; on a shared bus the
\* bus recovery is requested in that iteration, with the effect
\* recover_shared_i2c has at that time.
C11_PollFailureRecorded ==
    [][tick'.poll = "error" =>
         /\ diag_i2c_err_total' = diag_i2c_err_total + 1
         /\ diag_last_i2c_err_ms' = Some(now')
         /\ SHARED_I2C_BUS =>
               LET r == recover_result(SHARED_I2C_BUS, now', last_i2c_recover,
                                       scd_i2c, handles_made)
               IN  scd_i2c' = r.i2c /\ last_i2c_recover' = r.last]_vars

\* C12: a forced restart happens only in an iteration in which the restart
\* guard allowed it: the guard has recorded this iteration's time as the latest
\* attempt, and the attempts it keeps do not exceed max_attempts.
C12_ForcedRestartGuarded ==
    Did(tick, "forced") =>
        /\ scd_restart_attempts # <<>>
        /\ scd_restart_attempts[Len(scd_restart_attempts)] = now
        /\ Len(scd_restart_attempts) <= guard.max_attempts

\* C13: an iteration whose poll fails while the fault history is empty and the
\* score is below bad_score neither rebinds the bus handle nor forces a
\* restart; a rebind or a forced restart happens only when the score guard
\* (power_bad) or the attempt guard (an allowed attempt at this time) permits.
C13_IsolatedFailureAbsorbed ==
    /\ [][(/\ tick'.poll = "error"
           /\ event_log = <<>>
           /\ diag_i2c_err_total = 0
           /\ window_score < cfg.bad_score)
          => ~Did(tick', "forced") /\ scd_i2c' = scd_i2c]_vars
    /\ [][Did(tick', "forced") \/ scd_i2c' # scd_i2c =>
            \/ power_bad'
            \/ \E i \in DOMAIN allowed_log' : allowed_log'[i] = now']_vars

\* C14: the fast-recovery restart fires only in an iteration in which it has
\* not fired before, no sample has ever been accepted and SCD_FAST_RECOVERY_MS
\* have passed since warm_start; once it has fired, or a sample has been
\* accepted, no later iteration fires it.
C14_FastRecoveryOnce ==
    /\ [][Did(tick', "fast") =>
            /\ ~fast_recovery_done
            /\ fast_recovery_done'
            /\ nsamples' = 0
            /\ last_sample_ms' = None
            /\ now' - warm_start >= SCD_FAST_RECOVERY_MS]_vars
    /\ [][fast_recovery_done \/ nsamples > 0 => ~Did(tick', "fast")]_vars

\* fast recovery is behind; a later iteration without a sample, long after
\* warm_start, went through the restart part and did not fire it again
C14_Witness ==
    /\ fast_recovery_done
    /\ ~Did(tick, "fast")
    /\ tick.poll \in {"error", "not_ready", "skipped"}
    /\ last_sample_ms = None
    /\ now - warm_start >= SCD_FAST_RECOVERY_MS

\* the loop's mode: warm-up test of the display part, stale_sensor otherwise
Mode ==
    IF co2_f = None \/ last_sample_ms = None THEN "WARMUP"
    ELSE IF StaleSensor(now, last_sample_ms) THEN "STALE"
    ELSE "NORMAL"

\* C15: the loop starts in WARMUP; an iteration that accepts a sample leaves it
\* in NORMAL; WARMUP and STALE are left only by accepting a sample; once out of
\* WARMUP the loop never returns to it; every state has a next iteration.
C15_Modes ==
    /\ [](nops = 0 => Mode = "WARMUP")
    /\ [][tick'.poll = "accepted" => Mode' = "NORMAL"]_vars
    /\ [][Mode # "WARMUP" => Mode' # "WARMUP"]_vars
    /\ [][(Mode = "WARMUP" \/ Mode = "STALE") /\ Mode' = "NORMAL" =>
            tick'.poll = "accepted"]_vars
    /\ [](nops < MaxTicks => ENABLED NextLoop)

\* NORMAL again after STALE: without fast recovery, last_restart moves only by
\* the forced restart of a stale iteration
C15_Witness ==
    /\ Mode = "NORMAL"
    /\ tick.poll = "accepted"
    /\ nsamples = 2
    /\ ~fast_recovery_done
    /\ last_restart > warm_start

\* C16: an iteration in which the poll or any restart command raised ends as
\* every iteration does, and the loop goes on to a next iteration.
C16_FailuresIsolated ==
    tick.poll = "error" \/ Raised(tick) =>
        /\ op = "tick"
        /\ nops < MaxTicks => ENABLED NextLoop

\* the poll and all four commands of a forced restart raised in one iteration
C16_Witness ==
    /\ tick.poll = "error"
    /\ Did(tick, "forced")
    /\ \A i \in DOMAIN tick.scd_cmds : ~tick.scd_cmds[i][2]
    /\ op = "tick"
    /\ nops < MaxTicks

RestartOrder == <<"stop", "wake", "reinit", "start">>

C18_AlertFromRaw ==
    tick.poll = "accepted" => tick.lvl = level_from_co2(co2[1] * Scale, warn_on, high_on)

-----------------------------------------------------------------------------
\* Bus manager: the two devices' handles

\* C19: on a shared bus the sensor's handle and the display's handle are the
\* same object in every state, also after performed recoveries.
C19_SharedHandlesIdentical ==
    SHARED_I2C_BUS => scd_i2c = oled_i2c

-----------------------------------------------------------------------------
\* Protocol codec: one command is built, a buffer is parsed

\* opcodes the driver sends: stop, start, ready-status, ASC enable, pressure
Opcodes == {16262, 8625, 58552, 9238, 57344}

\* 16-bit argument words: the ends of the range, 0xBEEF (CRC 0x92 in the
\* data sheet), words whose bytes differ and coincide
WordValues == {0, 1, 48879, 65535}

RECURSIVE SeqsUpTo(_, _)
SeqsUpTo(S, n) ==
    IF n = 0 THEN {<<>>}
    ELSE LET shorter == SeqsUpTo(S, n - 1)
         IN  shorter \cup {Append(q, x) : q \in {r \in shorter : Len(r) = n - 1}, x \in S}

InitCodec ==
    /\ now = 0
    /\ op = "boot"
    /\ ret = None
    /\ nops = 0
    /\ cmd \in Opcodes
    /\ args_words \in SeqsUpTo(WordValues, MaxWords)
    /\ out = None
    /\ buf = None
    /\ words = None
    /\ buf_from = "none"
    /\ DiagIdle
    /\ BusIdle
    /\ LoopIdle
    /\ SettingsIdle

CodecStep(name) ==
    /\ nops' = nops + 1
    /\ op' = name
    /\ ret' = None
    /\ UNCHANGED <<now, cmd, args_words, diagVars, busVars, loopVars, settingsVars>>

\* out = build_cmd(cmd, args_words)
BuildCmd ==
    /\ out = None
    /\ CodecStep("build_cmd")
    /\ out' = Some(build_cmd(cmd, args_words))
    /\ UNCHANGED <<buf, words, buf_from>>

\* the whole of build_cmd's output is handed to the parser
TakeOutput ==
    /\ out # None
    /\ buf = None
    /\ CodecStep("take")
    /\ buf' = out
    /\ buf_from' = "output"
    /\ UNCHANGED <<out, words>>

\* the argument groups of the output, out[2:], are handed to the parser
TakeArgGroups ==
    /\ out # None
    /\ buf = None
    /\ CodecStep("take")
    /\ buf' = Some(SubSeq(out[1], 3, Len(out[1])))
    /\ buf_from' = "groups"
    /\ UNCHANGED <<out, words>>

\* byte string b with bit pos flipped; bit 0 is the top bit of the first byte
FlipBit(b, pos) ==
    [i \in 1..Len(b) |->
        IF i = (pos \div 8) + 1 THEN Xor(b[i], 2 ^ (7 - (pos % 8))) ELSE b[i]]

\* the argument groups with one bit flipped on the wire
TakeFlipped ==
    /\ out # None
    /\ buf = None
    /\ CodecStep("take")
    /\ \E pos \in 0..(8 * (Len(out[1]) - 2) - 1) :
          buf' = Some(FlipBit(SubSeq(out[1], 3, Len(out[1])), pos))
    /\ buf_from' = "flipped"
    /\ UNCHANGED <<out, words>>

\* any stretch out[i:j] of the output
TakeSlice ==
    /\ out # None
    /\ buf = None
    /\ CodecStep("take")
    /\ \E i \in 1..(Len(out[1]) + 1) : \E j \in (i - 1)..Len(out[1]) :
          buf' = Some(SubSeq(out[1], i, j))
    /\ buf_from' = "slice"
    /\ UNCHANGED <<out, words>>

\* words = parse_words_with_crc(buf)
ParseWords ==
    /\ buf # None
    /\ words = None
    /\ CodecStep("parse_words_with_crc")
    /\ words' = Some(parse_words_with_crc(buf[1]))
    /\ UNCHANGED <<out, buf, buf_from>>

NextCodec ==
    \/ BuildCmd
    \/ TakeOutput
    \/ TakeArgGroups
    \/ TakeFlipped
    \/ TakeSlice
    \/ ParseWords

SpecCodec == InitCodec /\ [][NextCodec]_vars

\* C20 as stated: parse_words_with_crc applied to the output of build_cmd
\* returns the argument words build_cmd was given.
C20_AsStated ==
    words # None /\ buf_from = "output" =>
        words[1].ok /\ words[1].words = args_words

\* C20 (amended): parse_words_with_crc applied to the argument groups of
\* build_cmd's output (the output after its two opcode bytes) returns the
\* argument words; applied to the whole output it raises "Bad length".
C20_RoundTrip ==
    /\ words # None /\ buf_from = "groups" =>
          words[1].ok /\ words[1].words = args_words
    /\ words # None /\ buf_from = "output" =>
          ~words[1].ok /\ words[1].err = "Bad length"

\* two words, 0xBEEF then 1, came back from the argument groups
C20_Witness ==
    /\ words # None
    /\ buf_from = "groups"
    /\ args_words = <<48879, 1>>
    /\ buf[1] = <<190, 239, 146, 0, 1, 176>>
    /\ words[1].words = <<48879, 1>>

\* C21: a buffer of valid groups with one bit flipped, in any group and at any
\* of the group's 24 positions, makes parse_words_with_crc raise the checksum
\* error; no words are returned.
C21_BitFlipDetected ==
    words # None /\ buf_from = "flipped" =>
        /\ ~words[1].ok
        /\ words[1].err = "CRC mismatch"
        /\ words[1].words = <<>>

\* the lowest bit of the second group's check byte was flipped
C21_Witness ==
    /\ words # None
    /\ buf_from = "flipped"
    /\ args_words = <<48879, 1>>
    /\ buf[1] = <<190, 239, 146, 0, 1, 177>>
    /\ words[1].err = "CRC mismatch"

\* every group of a buffer of 3k bytes carries the check byte of its data
RECURSIVE ValidGroups(_)
ValidGroups(b) ==
    \/ b = <<>>
    \/ /\ crc8(SubSeq(b, 1, 2)) = b[3]
       /\ ValidGroups(SubSeq(b, 4, Len(b)))

\* C22: a buffer whose length is no multiple of 3 raises the length error,
\* whatever it holds; a buffer of 3k bytes with a wrong check byte raises the
\* checksum error, which differs from the length error; a buffer of k valid
\* groups returns exactly k words.
C22_Framing ==
    words # None =>
        /\ Len(buf[1]) % 3 # 0 =>
              ~words[1].ok /\ words[1].err = "Bad length"
        /\ Len(buf[1]) % 3 = 0 /\ ~ValidGroups(buf[1]) =>
              ~words[1].ok /\ words[1].err = "CRC mismatch"
        /\ Len(buf[1]) % 3 = 0 /\ ValidGroups(buf[1]) =>
              words[1].ok /\ Len(words[1].words) = Len(buf[1]) \div 3

\* one valid group followed by a stray byte: the length error
C22_Witness ==
    /\ words # None
    /\ buf_from = "slice"
    /\ buf[1] = <<190, 239, 146, 0>>
    /\ words[1].err = "Bad length"

\* CRC-8 as a shift register fed bit by bit, top bit first: polynomial
\* x^8 + x^5 + x^4 + 1, register preset to all ones, no reflection, no final xor
RECURSIVE RefCrcBits(_, _)
RefCrcBits(reg, bits) ==
    IF bits = <<>> THEN reg
    ELSE LET top == ((reg \div 128) + Head(bits)) % 2
             sh == (reg * 2) % 256
         IN  RefCrcBits(IF top = 1 THEN Xor(sh, 49) ELSE sh, Tail(bits))

BitsOf(byte) == [k \in 1..8 |-> (byte \div (2 ^ (8 - k))) % 2]

RefCrc(hi, lo) == RefCrcBits(255, BitsOf(hi) \o BitsOf(lo))

\* C23: build_cmd returns 2 + 3 * len(args) bytes: the opcode's high and low
\* byte, then per argument word its high byte, low byte and the CRC-8 of these
\* two bytes, which is a byte.
C23_EncodeLayout ==
    out # None =>
        /\ Len(out[1]) = 2 + 3 * Len(args_words)
        /\ out[1][1] = cmd \div 256
        /\ out[1][2] = cmd % 256
        /\ \A k \in DOMAIN args_words :
              /\ out[1][3 * k] = args_words[k] \div 256
              /\ out[1][3 * k + 1] = args_words[k] % 256
              /\ out[1][3 * k + 2] = RefCrc(out[1][3 * k], out[1][3 * k + 1])
              /\ out[1][3 * k + 2] \in 0..255

\* the pressure command with 0xBEEF and 0xFFFF
C23_Witness ==
    /\ out # None
    /\ cmd = 57344
    /\ args_words = <<48879, 65535>>
    /\ out[1] = <<224, 0, 190, 239, 146, 255, 255, 172>>

-----------------------------------------------------------------------------
\* Settings store: validation, defaults and threshold-update callbacks

\* values a state file may hold, around the limits of each field
WarnLoaded == {Missing, Junk} \cup {IntVal(v) : v \in {500, 600, 1300, 1400, 1500}}
HighLoaded == {Missing, Junk} \cup {IntVal(v) : v \in {900, 1000, 1200, 1599, 3000, 3100}}
RemindLoaded == {Missing, Junk} \cup {IntVal(v) : v \in {1, 5, 120, 121}}

\* arguments of validate_settings, around the limits and the WARN+200 rule
WarnArgs == {599, 600, 800, 1000, 1400, 1401}
HighArgs == {999, 1000, 1100, 1199, 1200, 1500, 1600, 3000, 3001}
RemindArgs == {4, 5, 20, 120, 121}

\* cb_data.split(":") of the callbacks received
Callbacks ==
    { <<>>, <<"cfg">>, <<"menu", "warn", "50">>, <<"cfg", "refresh">>,
      <<"cfg", "preset">>, <<"cfg", "preset", "home">>, <<"cfg", "preset", "office">>,
      <<"cfg", "warn", "50">>, <<"thr", "warn", "-50">>, <<"cfg", "warn", "x">>,
      <<"thr", "high", "50">>, <<"cfg", "high", "-50">>, <<"cfg", "high", "2000">>,
      <<"cfg", "remind", "5">>, <<"cfg", "remind", "-5">>, <<"thr", "remind", "5">>,
      <<"cfg", "fan", "5">>, <<"cfg", "fan", "x">> }

InitSettings ==
    /\ now = 0
    /\ op = "boot"
    /\ ret = None
    /\ nops = 0
    /\ \E ld \in [warn_on : WarnLoaded, high_on : HighLoaded,
                    remind_min : RemindLoaded] : loaded = Some(ld)
    /\ state = None
    /\ saved = None
    /\ nsaves = 0
    /\ DiagIdle
    /\ BusIdle
    /\ LoopIdle
    /\ CodecIdle

\* ok, msg = validate_settings(w, h, r)
ValidateSettings ==
    /\ state # None
    /\ nops = 0
    /\ \E w \in WarnArgs, h \in HighArgs, r \in RemindArgs :
          ret' = [args |-> <<w, h, r>>, res |-> validate_settings(w, h, r)]
    /\ nops' = nops + 1
    /\ op' = "validate_settings"
    /\ UNCHANGED <<now, settingsVars, diagVars, busVars, loopVars, codecVars>>

\* state = apply_state_defaults(load_state())
ApplyStateDefaults ==
    /\ loaded # None
    /\ state' = Some(apply_state_defaults(loaded[1]))
    /\ loaded' = None
    /\ op' = "apply_state_defaults"
    /\ ret' = loaded
    /\ UNCHANGED <<now, nops, saved, nsaves, diagVars, busVars, loopVars,
                   codecVars>>

\* apply_cfg_callback(state, cb_data); save_state may fail to write the file
ApplyCfgCallback ==
    /\ state # None
    /\ nops < MaxCallbacks
    /\ \E cb \in Callbacks :
          LET r == cfg_result(state[1], cb)
          IN  /\ ret' = [cb |-> cb, ok |-> r.ok, msg |-> r.msg]
              /\ state' = Some(r.state)
              /\ nsaves' = IF r.save THEN nsaves + 1 ELSE nsaves
              /\ IF r.save
                 THEN \E written \in BOOLEAN :
                         saved' = IF written THEN Some(r.state) ELSE saved
                 ELSE saved' = saved
    /\ nops' = nops + 1
    /\ op' = "apply_cfg_callback"
    /\ UNCHANGED <<now, loaded, diagVars, busVars, loopVars, codecVars>>

NextSettings ==
    \/ ValidateSettings
    \/ ApplyStateDefaults
    \/ ApplyCfgCallback

SpecSettings == InitSettings /\ [][NextSettings]_vars

Valid(w, h, r) ==
    /\ w >= 600 /\ w <= 1400
    /\ h >= 1000 /\ h <= 3000
    /\ h >= w + 200
    /\ r >= 5 /\ r <= 120

\* C24: validate_settings accepts exactly the triples with warn_on in
\* [600, 1400], high_on in [1000, 3000], high_on >= warn_on + 200 and
\* remind_min in [5, 120]; (1000, 1100, 20) is rejected with a reason naming
\* WARN+200, (800, 1500, 20) is accepted.
C24_ValidateSettings ==
    op = "validate_settings" =>
        /\ ret.res.ok <=> Valid(ret.args[1], ret.args[2], ret.args[3])
        /\ ret.args = <<1000, 1100, 20>> =>
              ~ret.res.ok /\ ret.res.msg = "HIGH must be >= WARN+200"
        /\ ret.args = <<800, 1500, 20>> => ret.res.ok

\* high_on exactly warn_on + 200 is accepted
C24_Witness ==
    /\ op = "validate_settings"
    /\ ret.args = <<1000, 1200, 120>>
    /\ ret.res.ok

\* C25: whatever the loaded dict holds, the state apply_state_defaults leaves
\* is one validate_settings accepts.
C25_DefaultsValid ==
    op = "apply_state_defaults" =>
        /\ Valid(state[1].warn_on, state[1].high_on, state[1].remind_min)
        /\ validate_settings(state[1].warn_on, state[1].high_on,
                             state[1].remind_min).ok

\* warn_on at its maximum with a smaller high_on and a junk remind_min
C25_Witness ==
    /\ op = "apply_state_defaults"
    /\ ret[1] = [warn_on |-> IntVal(1400), high_on |-> IntVal(1200),
                 remind_min |-> Junk]
    /\ state[1] = [warn_on |-> 1400, high_on |-> 1600, remind_min |-> 5]

\* C26: a rejected callback returns a reason and leaves the three fields of
\* the state and the state file as they were; save_state is not called.
C26_RejectedLeavesState ==
    [][op' = "apply_cfg_callback" /\ ~ret'.ok =>
         /\ ret'.msg # ""
         /\ state' = state
         /\ saved' = saved
         /\ nsaves' = nsaves]_vars

\* a delta that validation refuses, after an update that was saved
C26_Witness ==
    /\ op = "apply_cfg_callback"
    /\ ret.cb = <<"cfg", "high", "2000">>
    /\ ~ret.ok
    /\ ret.msg = "HIGH out of range"
    /\ nsaves = 1
    /\ saved = state

\* C27: from apply_state_defaults on, through accepted and rejected
\* callbacks, warn_on < high_on, high_on >= warn_on + 200 and both thresholds
\* are inside their ranges.
C27_ThresholdsStayValid ==
    state # None =>
        /\ state[1].warn_on < state[1].high_on
        /\ state[1].high_on >= state[1].warn_on + 200
        /\ state[1].warn_on >= 600 /\ state[1].warn_on <= 1400
        /\ state[1].high_on >= 1000 /\ state[1].high_on <= 3000

\* two accepted updates brought the thresholds to the closest allowed pair
C27_Witness ==
    /\ op = "apply_cfg_callback"
    /\ ret.ok
    /\ nsaves = 2
    /\ state[1].high_on = state[1].warn_on + 200

-----------------------------------------------------------------------------
\* Control loop: filter, trends, reminders and restarts (checked under SpecLoop)

\* v lies strictly between a and b
StrictlyBetween(v, a, b) == (a < v /\ v < b) \/ (b < v /\ v < a)

\* alpha strictly between 0 and 1, in twentieths
Alphas == 1..19

\* earlier filtered values (350, 4900, 3307.5) and new readings the filter is tried on
EmaPrevs == {350 * Scale, 4900 * Scale, 3307 * Scale + Scale \div 2}
EmaInputs == {350, 351, 4900, 10000}

\* the filtered value after an accepted reading x, given the one before
EmaStep(before, after, x) ==
    IF before = None THEN after = Some(x * Scale)
    ELSE before[1] # x * Scale => StrictlyBetween(after[1], before[1], x * Scale)

RawWords == {0, 1, 13107, 32768, 65534, 65535}

\* C32: every sample the loop holds has its temperature in [-45, 130] and its
\* humidity in [0, 100], whatever 16-bit words t_raw and rh_raw were read
\* (temp = -45 + 175 * t_raw / 65535, rh = 100 * rh_raw / 65535; in tenths).
C32_SampleRanges ==
    /\ \A t_raw \in RawWords, rh_raw \in RawWords :
          LET m == read_measurement(<<400, t_raw, rh_raw>>)
          IN  /\ 0 - 450 <= m.temp /\ m.temp <= 1300
              /\ 0 <= m.rh /\ m.rh <= 1000
    /\ temp # None => 0 - 450 <= temp[1] /\ temp[1] <= 1300
    /\ rh # None => 0 <= rh[1] /\ rh[1] <= 1000

UP == 1
FLAT == 0
DOWN == 0 - 1

\* the trend the claim gives a channel: before and after are its filtered
\* values before and after the accepted sample
StatedTrend(before, after, deadband) ==
    IF before = None THEN FLAT
    ELSE IF after[1] - before[1] > deadband * Scale THEN UP
    ELSE IF before[1] - after[1] > deadband * Scale THEN DOWN
    ELSE FLAT

Deadbands == {UI_TREND_DEADBAND, UI_TEMP_TREND_DEADBAND, UI_RH_TREND_DEADBAND}

\* C33: on each accepted sample the trend of every channel is UP exactly when
\* the new filtered value exceeds the previous one by more than the channel's
\* deadband, DOWN exactly when it is lower by more than the deadband, FLAT
\* otherwise (also for a change equal to the deadband); on the first accepted
\* sample every trend is FLAT.
C33_Trends ==
    /\ [](\A db \in Deadbands :
            /\ trend_from_delta(db * Scale, db) = FLAT
            /\ trend_from_delta(0 - db * Scale, db) = FLAT
            /\ trend_from_delta(db * Scale + 1, db) = UP
            /\ trend_from_delta(0 - db * Scale - 1, db) = DOWN
            /\ trend_from_delta(0, db) = FLAT)
    /\ [][tick'.poll = "accepted" =>
            /\ trend_dir' = StatedTrend(co2_f, co2_f', UI_TREND_DEADBAND)
            /\ temp_trend_dir' = StatedTrend(temp_f, temp_f', UI_TEMP_TREND_DEADBAND)
            /\ rh_trend_dir' = StatedTrend(rh_f, rh_f', UI_RH_TREND_DEADBAND)
            /\ nsamples = 0 =>
                  trend_dir' = FLAT /\ temp_trend_dir' = FLAT /\ rh_trend_dir' = FLAT]_vars

\* 4900 ppm, 131.9 C, 100 % and then 350 ppm, 26.9 C, 40 %: every channel DOWN
C33_Witness ==
    /\ tick.poll = "accepted"
    /\ nsamples = 2
    /\ co2 = Some(350)
    /\ trend_dir = DOWN
    /\ temp_trend_dir = DOWN
    /\ rh_trend_dir = DOWN

Sent(tk, kind) == \E i \in DOMAIN tk.sent : tk.sent[i] = kind

\* C34: last_remind is the time of the last delivered HIGH notification (first
\* alert or reminder); a reminder is handed over only on an accepted sample
\* whose level is HIGH, whose previous level was HIGH and which comes more than
\* remind_ms after that time; and while the level stays HIGH a delivered HIGH
\* notification comes more than remind_ms after the one before.
C34_ReminderSpacing ==
    /\ [][/\ tick'.high_sent => Sent(tick', "high") \/ Sent(tick', "reminder")
          /\ tick'.high_sent => last_remind' = now'
          /\ ~tick'.high_sent => last_remind' = last_remind]_vars
    /\ [][Sent(tick', "reminder") =>
            /\ tick'.poll = "accepted"
            /\ tick'.lvl = LVL_HIGH
            /\ tick'.lvl_before = LVL_HIGH
            /\ now' - last_remind > remind_ms]_vars
    /\ [][tick'.high_sent /\ tick'.lvl_before = LVL_HIGH =>
            now' - last_remind > remind_ms]_vars

\* a delivered first alert, a HIGH sample 25 s later without a reminder, and
\* a reminder delivered once more than 5 minutes have passed
C34_Witness ==
    /\ tick.sent = <<"reminder">>
    /\ tick.high_sent
    /\ tick.lvl_before = LVL_HIGH
    /\ remind_ms = 300000
    /\ now = READY_POLL_MS \div 2 + SCD_FAST_RECOVERY_MS + 300001
    /\ nsamples = 3

\* C35: a recovery notification is handed over only on an accepted sample
\* whose level is GOOD while the level of the accepted sample before it was
\* HIGH; a step from HIGH to OK hands over nothing and leaves OK as the
\* remembered level, so that the later step from OK to GOOD hands over no
\* recovery notification either.
C35_RecoveryOnlyHighToGood ==
    [][/\ Sent(tick', "recovery") =>
             /\ tick'.poll = "accepted"
             /\ prev_lvl = LVL_HIGH
             /\ level_from_co2(co2_f'[1], warn_on, high_on) = LVL_GOOD
       /\ (/\ tick'.poll = "accepted"
           /\ prev_lvl = LVL_HIGH
           /\ level_from_co2(co2_f'[1], warn_on, high_on) = LVL_OK) =>
             tick'.sent = <<>> /\ prev_lvl' = LVL_OK
       /\ (tick'.poll = "accepted" /\ prev_lvl = LVL_OK) =>
             ~Sent(tick', "recovery")
      ]_vars

\* warn 1400, high 1600 and the samples 2000, 350, 350: the filtered value
\* goes 2000 (HIGH), 1422.5 (OK), 1047.125 (GOOD); Wi-Fi is up, nothing is sent
C35_Witness ==
    /\ tick.poll = "accepted"
    /\ nsamples = 3
    /\ warn_on = 1400
    /\ co2_f[1] * 8 = 8377 * Scale
    /\ tick.lvl_before = LVL_OK
    /\ tick.lvl = LVL_GOOD
    /\ tick.wlan
    /\ tick.sent = <<>>

\* C36: on every accepted sample prev_lvl becomes the level just computed,
\* whatever Wi-Fi, quiet hours and tg_send did; no other iteration changes it;
\* hence once a sample has been accepted with level HIGH, no later iteration
\* hands over a first alert while the level stays HIGH, whether or not the
\* crossing was announced.
C36_PrevLevelAlwaysSet ==
    [][/\ (tick'.poll = "accepted") =>
             prev_lvl' = level_from_co2(co2_f'[1], warn_on, high_on)
       /\ (tick'.poll # "accepted") => prev_lvl' = prev_lvl
       /\ (prev_lvl = LVL_HIGH) => ~Sent(tick', "high")
      ]_vars

\* the crossing to HIGH was not delivered (a reminder goes out less than
\* remind_ms after boot); on this later HIGH sample, with Wi-Fi up and outside
\* quiet hours, a reminder is handed over and no first alert
C36_Witness ==
    /\ tick.poll = "accepted"
    /\ tick.lvl_before = LVL_HIGH
    /\ prev_lvl = LVL_HIGH
    /\ tick.wlan
    /\ ~tick.quiet
    /\ tick.sent = <<"reminder">>
    /\ now < remind_ms

\* C37: last_restart is the time of the latest restart of either kind, or of
\* boot; a forced restart is performed only in an iteration after whose poll no
\* sample has ever been accepted or the last accepted one is more than
\* SCD_RESTART_MS old, and only SCD_RESTART_MS or more after that time; it is
\* not performed while a sample of age SCD_RESTART_MS or less exists.
C37_ForcedRestartConditions ==
    [][/\ (tick'.restarts # <<>>) => last_restart' = now'
       /\ (tick'.restarts = <<>>) => last_restart' = last_restart
       /\ Did(tick', "forced") =>
             /\ \/ nsamples' = 0
                \/ /\ last_sample_ms' # None
                   /\ now' - last_sample_ms'[1] > SCD_RESTART_MS
             /\ now' - last_restart >= SCD_RESTART_MS
             /\ ~Did(tick', "fast")
       /\ (last_sample_ms' # None /\ now' - last_sample_ms'[1] <= SCD_RESTART_MS) =>
             ~Did(tick', "forced")
       /\ (nsamples' = 0) <=> (last_sample_ms' = None)
      ]_vars

\* a sample was accepted, then none for more than SCD_RESTART_MS: the restart
\* is forced long after boot, the only earlier restart time
C37_Witness ==
    /\ Did(tick, "forced")
    /\ nsamples = 1
    /\ last_sample_ms # None
    /\ now - last_sample_ms[1] > SCD_RESTART_MS
    /\ ~fast_recovery_done
    /\ last_restart = now
====
